---- MODULE Spec2Model ----
(***************************************************************************)
(* Trivia API backend (backend/flaskr/__init__.py): the question store,    *)
(* the route handlers and the error handlers, as a state machine.          *)
(*                                                                         *)
(* Strings are sequences of one-character strings, so that substring,     *)
(* case folding, LIKE matching and str() are computed and not assumed.     *)
(* A JSON scalar of a request body is a record [kind, s, n]: kind is       *)
(* "absent" (key not in the object), "null", "str" (payload s) or "int"    *)
(* (payload n).                                                            *)
(***************************************************************************)
EXTENDS Integers, Sequences, FiniteSets, TLC

VARIABLES
    questions,   \* rows of table questions (committed)
    next_id,     \* next value of the questions.id sequence
    categories,  \* rows of table categories
    request,     \* the request handled last
    response,    \* the response sent last
    session,     \* quiz client: previous_questions, quiz_category, served
    pc,          \* concurrent DELETE requests: position of each handler
    target,      \* concurrent DELETE requests: question_id of each request
    result       \* concurrent DELETE requests: response of each request

vars == <<questions, next_id, categories, request, response, session, pc, target, result>>

----------------------------------------------------------------------------
(* Bounds of the model *)

MaxId == 2          \* ids the sequence hands out in Spec
PageMaxId == 11     \* ids the sequence hands out in SpecPage
QuizMaxId == 3      \* seeded questions in SpecQuiz
ConcMaxId == 2      \* seeded questions in SpecConc

(* Program constant *)
QUESTIONS_PER_PAGE == 10

----------------------------------------------------------------------------
(* JSON scalars and Python truthiness *)

Absent == [kind |-> "absent", s |-> <<>>, n |-> 0]
JNull == [kind |-> "null", s |-> <<>>, n |-> 0]
JStr(str_) == [kind |-> "str", s |-> str_, n |-> 0]
JInt(i) == [kind |-> "int", s |-> <<>>, n |-> i]

\* dict.get(key, default): the default only when the key is absent
get(v, default) == IF v.kind = "absent" THEN default ELSE v

\* bool(v): None, "" and 0 are falsy
truthy(v) ==
    \/ v.kind = "str" /\ Len(v.s) > 0
    \/ v.kind = "int" /\ v.n # 0

Digit(d) == <<"0", "1", "2", "3", "4", "5", "6", "7", "8", "9">>[d + 1]

RECURSIVE str(_)
\* str(n) of a non-negative int: its decimal digits
str(n) == IF n < 10 THEN <<Digit(n)>> ELSE str(n \div 10) \o <<Digit(n % 10)>>

----------------------------------------------------------------------------
(* Rows and their JSON form *)

\* Question.format()
format(q) ==
    [id |-> q.id, question |-> q.question, answer |-> q.answer,
     category |-> q.category, difficulty |-> q.difficulty]

Ids(S) == {q.id : q \in S}

RECURSIVE order_by_id(_)
\* Question.query.order_by(Question.id).all()
order_by_id(S) ==
    IF S = {} THEN <<>>
    ELSE LET m == CHOOSE q \in S : \A r \in S : q.id <= r.id
         IN <<m>> \o order_by_id(S \ {m})

\* .all() of a query without order_by: the rows in an order the database picks
all_orders(S) ==
    {f \in [1..Cardinality(S) -> S] : \A i, j \in 1..Cardinality(S) : f[i] = f[j] => i = j}

formatted(rows) == [i \in 1..Len(rows) |-> format(rows[i])]

Range(f) == {f[i] : i \in DOMAIN f}

----------------------------------------------------------------------------
(* Error handlers *)

not_found ==
    [status |-> 404, success |-> FALSE, error |-> 404, message |-> "Resource not found"]

unprocessable_entity ==
    [status |-> 422, success |-> FALSE, error |-> 422, message |-> "Unprocessable entity"]

bad_request ==
    [status |-> 400, success |-> FALSE, error |-> 400, message |-> "Bad request"]

----------------------------------------------------------------------------
(* Pagination helper *)

\* Python's seq[start:end]: a negative index counts from the end, and both
\* indices are clamped to 0..len
PyIndex(i, len) ==
    IF i < 0 THEN (IF i + len < 0 THEN 0 ELSE i + len)
    ELSE (IF i > len THEN len ELSE i)

PySlice(seq, start, end) ==
    LET lo == PyIndex(start, Len(seq))
        hi == PyIndex(end, Len(seq))
    IN IF lo >= hi THEN <<>> ELSE SubSeq(seq, lo + 1, hi)

\* mutant: the page number taken as 0-based
paginate_questions_zero_based(page, selection) ==
    LET start == page * QUESTIONS_PER_PAGE
        end == start + QUESTIONS_PER_PAGE
    IN PySlice(formatted(selection), start, end)

paginate_questions(page, selection) ==
    LET start == (page - 1) * QUESTIONS_PER_PAGE
        end == start + QUESTIONS_PER_PAGE
    IN PySlice(formatted(selection), start, end)

----------------------------------------------------------------------------
(* Route handlers.  Each is the whole handler: it records the request,     *)
(* changes the store as the code does and sets the response.               *)

get_categories ==
    /\ request' = [op |-> "get_categories"]
    /\ response' =
         IF Cardinality(categories) = 0 THEN not_found
         ELSE [status |-> 200, success |-> TRUE, categories |-> categories]
    /\ UNCHANGED <<questions, next_id, categories>>

get_questions(page) ==
    LET selection == order_by_id(questions)
        current_questions == paginate_questions(page, selection)
    IN /\ request' = [op |-> "get_questions", page |-> page]
       /\ response' =
            IF Len(current_questions) = 0 THEN not_found
            ELSE [status |-> 200, success |-> TRUE,
                  questions |-> current_questions,
                  total_questions |-> Len(selection),
                  categories |-> categories]
       /\ UNCHANGED <<questions, next_id, categories>>

\* session.get(Question, question_id)
session_get(question_id) == {q \in questions : q.id = question_id}

\* mutant: the delete is never committed
delete_question_not_committed(question_id) ==
    LET question == session_get(question_id)
    IN /\ request' = [op |-> "delete_question", question_id |-> question_id]
       /\ IF question = {}
          THEN response' = not_found
          ELSE response' = [status |-> 200, success |-> TRUE, deleted |-> question_id]
       /\ UNCHANGED <<questions, next_id, categories>>

delete_question(question_id) ==
    LET question == session_get(question_id)
    IN /\ request' = [op |-> "delete_question", question_id |-> question_id]
       /\ IF question = {}
          THEN /\ response' = not_found
               /\ UNCHANGED questions
          ELSE /\ questions' = questions \ question
               /\ response' = [status |-> 200, success |-> TRUE, deleted |-> question_id]
       /\ UNCHANGED <<next_id, categories>>

\* Question(...).insert(): the row gets the sequence's next id
insert(question_text, answer, category, difficulty) ==
    [id |-> next_id, question |-> question_text.s, answer |-> answer.s,
     category |-> category.s, difficulty |-> difficulty.n]

\* mutant: difficulty is tested for presence, not truthiness
create_question_difficulty_present(data) ==
    LET question_text == get(data.question, JNull)
        answer == get(data.answer, JNull)
        category == get(data.category, JNull)
        difficulty == get(data.difficulty, JNull)
    IN /\ request' = [op |-> "create_question", data |-> data]
       /\ IF ~(truthy(question_text) /\ truthy(answer) /\ truthy(category)
               /\ difficulty.kind = "int")
          THEN /\ response' = unprocessable_entity
               /\ UNCHANGED <<questions, next_id>>
          ELSE LET new_question == insert(question_text, answer, category, difficulty)
               IN /\ questions' = questions \cup {new_question}
                  /\ next_id' = next_id + 1
                  /\ response' = [status |-> 200, success |-> TRUE, created |-> new_question.id]
       /\ UNCHANGED categories

create_question(data) ==
    LET question_text == get(data.question, JNull)
        answer == get(data.answer, JNull)
        category == get(data.category, JNull)
        difficulty == get(data.difficulty, JNull)
    IN /\ request' = [op |-> "create_question", data |-> data]
       /\ IF ~(truthy(question_text) /\ truthy(answer) /\ truthy(category) /\ truthy(difficulty))
          THEN /\ response' = unprocessable_entity
               /\ UNCHANGED <<questions, next_id>>
          ELSE LET new_question == insert(question_text, answer, category, difficulty)
               IN /\ questions' = questions \cup {new_question}
                  /\ next_id' = next_id + 1
                  /\ response' = [status |-> 200, success |-> TRUE, created |-> new_question.id]
       /\ UNCHANGED categories

----------------------------------------------------------------------------
(* Question.question.ilike(pattern) *)

\* lower case of one character
lower(c) == IF c = "A" THEN "a" ELSE IF c = "B" THEN "b" ELSE c

RECURSIVE like(_, _)
\* SQL LIKE: % matches any run of characters, _ any one character, a
\* backslash takes the next pattern character literally
like(text, pat) ==
    IF pat = <<>> THEN text = <<>>
    ELSE IF pat[1] = "%"
         THEN \E k \in 0..Len(text) : like(SubSeq(text, k + 1, Len(text)), Tail(pat))
    ELSE IF text = <<>> THEN FALSE
    ELSE IF pat[1] = "_" THEN like(Tail(text), Tail(pat))
    ELSE IF pat[1] = "\\" /\ Len(pat) >= 2
         THEN text[1] = pat[2] /\ like(Tail(text), Tail(Tail(pat)))
    ELSE text[1] = pat[1] /\ like(Tail(text), Tail(pat))

\* ILIKE: LIKE on the case-folded text and pattern
ilike(text, pat) ==
    like([i \in 1..Len(text) |-> lower(text[i])], [i \in 1..Len(pat) |-> lower(pat[i])])

search_questions(data) ==
    LET search_term == get(data.searchTerm, JStr(<<>>))
        results == {q \in questions : ilike(q.question, <<"%">> \o search_term.s \o <<"%">>)}
    IN /\ request' = [op |-> "search_questions", data |-> data]
       /\ \E rows \in all_orders(results) :
            response' = [status |-> 200, success |-> TRUE,
                         questions |-> formatted(rows),
                         total_questions |-> Len(rows)]
       /\ UNCHANGED <<questions, next_id, categories>>

\* mutant: an empty result is answered 200 instead of 404
get_questions_by_category_no_404(category_id) ==
    LET found == {q \in questions : q.category = str(category_id)}
    IN /\ request' = [op |-> "get_questions_by_category", category_id |-> category_id]
       /\ \E rows \in all_orders(found) :
            response' = [status |-> 200, success |-> TRUE,
                         questions |-> formatted(rows),
                         total_questions |-> Len(rows),
                         current_category |-> category_id]
       /\ UNCHANGED <<questions, next_id, categories>>

get_questions_by_category(category_id) ==
    LET found == {q \in questions : q.category = str(category_id)}
    IN /\ request' = [op |-> "get_questions_by_category", category_id |-> category_id]
       /\ IF Cardinality(found) = 0
          THEN response' = not_found
          ELSE \E rows \in all_orders(found) :
                 response' = [status |-> 200, success |-> TRUE,
                              questions |-> formatted(rows),
                              total_questions |-> Len(rows),
                              current_category |-> category_id]
       /\ UNCHANGED <<questions, next_id, categories>>

----------------------------------------------------------------------------
(* Play quiz.  quiz_category is [kind, has_id, id]: kind "absent", "null"  *)
(* or "object"; has_id says whether the object has the key id.             *)
(* previous_questions is [kind, ids]: kind "absent", "null" or "list".     *)

\* mutant: a missing key reads as None instead of raising KeyError
subscript_raises_only_none(quiz_category) == quiz_category.kind # "object"

\* quiz_category['id'] raises TypeError on None, KeyError without the key
subscript_raises(quiz_category) ==
    quiz_category.kind # "object" \/ ~quiz_category.has_id

\* Question.id.notin_(previous_questions) raises on None
notin_raises(previous_questions) == previous_questions.kind = "null"

\* mutant: the category branch forgets previous_questions
quiz_filter_category_only(quiz_category, previous_questions) ==
    IF truthy(quiz_category.id)
    THEN {q \in questions : q.category = str(quiz_category.id.n)}
    ELSE {q \in questions : q.id \notin Range(previous_questions.ids)}

\* mutant: only the last previous question is excluded
quiz_filter_last_only(quiz_category, previous_questions) ==
    LET ids == previous_questions.ids
        last == IF ids = <<>> THEN {} ELSE {ids[Len(ids)]}
    IN IF truthy(quiz_category.id)
       THEN {q \in questions :
               q.category = str(quiz_category.id.n) /\ q.id \notin last}
       ELSE {q \in questions : q.id \notin last}

quiz_filter(quiz_category, previous_questions) ==
    IF truthy(quiz_category.id)
    THEN {q \in questions :
            /\ q.category = str(quiz_category.id.n)
            /\ q.id \notin Range(previous_questions.ids)}
    ELSE {q \in questions : q.id \notin Range(previous_questions.ids)}

play_quiz(data) ==
    LET previous_questions ==
            IF data.previous_questions.kind = "absent"
            THEN [kind |-> "list", ids |-> <<>>]
            ELSE data.previous_questions
        quiz_category ==
            IF data.quiz_category.kind = "absent"
            THEN [kind |-> "null", has_id |-> FALSE, id |-> JNull]
            ELSE data.quiz_category
    IN /\ request' = [op |-> "play_quiz", data |-> data]
       /\ IF subscript_raises(quiz_category) \/ notin_raises(previous_questions)
          THEN response' = unprocessable_entity
          ELSE LET candidates == quiz_filter(quiz_category, previous_questions)
               IN IF candidates # {}
                  THEN \E q \in candidates :
                         response' = [status |-> 200, success |-> TRUE,
                                      question |-> <<format(q)>>]
                  ELSE response' = [status |-> 200, success |-> TRUE, question |-> <<>>]
       /\ UNCHANGED <<questions, next_id, categories>>

----------------------------------------------------------------------------
(* Inputs of Spec *)

Texts == {<<"A", "b">>, <<"b">>}
Answers == {<<"a">>}
CategoryStrings == {<<"1">>, <<"2">>}
Difficulties == {1}

\* rows of table categories after seeding
SeededCategories == {[id |-> 1, type |-> "Science"], [id |-> 2, type |-> "Art"]}

CreateBodies ==
    [question : {Absent, JNull, JStr(<<>>)} \cup {JStr(t) : t \in Texts},
     answer : {Absent} \cup {JStr(a) : a \in Answers},
     category : {Absent, JStr(<<>>), JInt(0)} \cup {JStr(c) : c \in CategoryStrings},
     difficulty : {Absent, JInt(0)} \cup {JInt(d) : d \in Difficulties}]

SearchBodies ==
    [searchTerm : {Absent, JStr(<<>>), JStr(<<"a">>), JStr(<<"B">>),
                   JStr(<<"a", "B">>), JStr(<<"_">>)}]

RECURSIVE ascending(_)
\* the ids of a set as a list
ascending(S) ==
    IF S = {} THEN <<>>
    ELSE LET m == CHOOSE x \in S : \A y \in S : x <= y
         IN <<m>> \o ascending(S \ {m})

PreviousQuestions ==
    {[kind |-> "absent", ids |-> <<>>], [kind |-> "null", ids |-> <<>>]}
    \cup {[kind |-> "list", ids |-> ascending(S)] : S \in SUBSET (1..MaxId)}

QuizCategories ==
    {[kind |-> "absent", has_id |-> FALSE, id |-> JNull],
     [kind |-> "null", has_id |-> FALSE, id |-> JNull],
     [kind |-> "object", has_id |-> FALSE, id |-> JNull],
     [kind |-> "object", has_id |-> TRUE, id |-> JNull]}
    \cup {[kind |-> "object", has_id |-> TRUE, id |-> JInt(i)] : i \in 0..2}

QuizBodies == [previous_questions : PreviousQuestions, quiz_category : QuizCategories]

Pages == -1..2

NoSession == [previous_questions |-> <<>>, quiz_category |-> 0, served |-> <<>>]

----------------------------------------------------------------------------
(* Spec: the API, one request at a time *)

Init ==
    /\ questions = {}
    /\ next_id = 1
    /\ categories \in {{}, SeededCategories}
    /\ request = [op |-> "none"]
    /\ response = [status |-> 0]
    /\ session = NoSession
    /\ pc = <<>>
    /\ target = <<>>
    /\ result = <<>>

Idle == UNCHANGED <<session, pc, target, result>>

GetCategories == get_categories /\ Idle

GetQuestions == \E page \in Pages : get_questions(page) /\ Idle

DeleteQuestion == \E question_id \in 1..(MaxId + 1) : delete_question(question_id) /\ Idle

CreateQuestion == next_id <= MaxId /\ \E data \in CreateBodies : create_question(data) /\ Idle

SearchQuestions == \E data \in SearchBodies : search_questions(data) /\ Idle

GetQuestionsByCategory ==
    \E category_id \in 0..3 : get_questions_by_category(category_id) /\ Idle

PlayQuiz == \E data \in QuizBodies : play_quiz(data) /\ Idle

Next ==
    \/ GetCategories
    \/ GetQuestions
    \/ DeleteQuestion
    \/ CreateQuestion
    \/ SearchQuestions
    \/ GetQuestionsByCategory
    \/ PlayQuiz

Spec == Init /\ [][Next]_vars

----------------------------------------------------------------------------
(* Claims checked under Spec *)

\* what the claims call present and truthy, stated on the submitted value
Submitted(v) == (v.kind = "str" /\ v.s # <<>>) \/ (v.kind = "int" /\ v.n # 0)

\* C1: DELETE /questions/{id} of an existing id answers 200 with deleted = id,
\* removes exactly that question and keeps every other one; of a missing id
\* it answers 404 "Resource not found" and leaves the store unchanged; a
\* second DELETE of the same id right after a successful one answers 404 and
\* leaves the store as the first left it.
C1_Delete ==
    [][/\ request'.op = "delete_question" =>
            LET id == request'.question_id
            IN IF id \in Ids(questions)
               THEN /\ response' = [status |-> 200, success |-> TRUE, deleted |-> id]
                    /\ id \notin Ids(questions')
                    /\ questions' = {q \in questions : q.id # id}
               ELSE /\ response' = not_found
                    /\ questions' = questions
       /\ (/\ request.op = "delete_question"
           /\ response.status = 200
           /\ request'.op = "delete_question"
           /\ request'.question_id = request.question_id) =>
            (response' = not_found /\ questions' = questions)]_vars

\* a DELETE that succeeded and left another question in the store
C1_Witness ==
    /\ request.op = "delete_question"
    /\ response.status = 200
    /\ questions # {}
    /\ response.deleted \notin Ids(questions)

WellFormedQuiz(data) ==
    /\ data.quiz_category.kind = "object"
    /\ data.quiz_category.has_id
    /\ data.previous_questions.kind \in {"list", "absent"}

\* the candidates of C3, stated on the request body
Candidates(data) ==
    {q \in questions :
       /\ \A i \in 1..Len(data.previous_questions.ids) : data.previous_questions.ids[i] # q.id
       /\ Submitted(data.quiz_category.id) => q.category = str(data.quiz_category.id.n)}

\* C3: POST /quizzes with a well-formed body answers 200 with success true;
\* the question is one of the candidates when there is one, and null exactly
\* when there is none; its id is never in previous_questions.
C3_Quiz ==
    (request.op = "play_quiz" /\ WellFormedQuiz(request.data)) =>
        /\ response.status = 200
        /\ response.success
        /\ Candidates(request.data) # {} =>
             \E q \in Candidates(request.data) : response.question = <<format(q)>>
        /\ (response.question = <<>>) <=> (Candidates(request.data) = {})
        /\ response.question # <<>> =>
             response.question[1].id \notin Range(request.data.previous_questions.ids)

\* a quiz answer picked with a category filter and a previous question excluded
C3_Witness ==
    /\ request.op = "play_quiz"
    /\ WellFormedQuiz(request.data)
    /\ request.data.quiz_category.id = JInt(1)
    /\ request.data.previous_questions.ids # <<>>
    /\ Range(request.data.previous_questions.ids) \subseteq Ids(questions)
    /\ response.question # <<>>

\* C6: GET /categories/{id}/questions returns exactly the stored questions
\* whose category equals str(id), their count and the id; it answers 404 when
\* no stored question has that category, whether or not the Category exists.
C6_ByCategory ==
    request.op = "get_questions_by_category" =>
        LET id == request.category_id
            match == {q \in questions : q.category = str(id)}
        IN IF match = {}
           THEN response = not_found
           ELSE /\ response.status = 200
                /\ response.success
                /\ Range(response.questions) = {format(q) : q \in match}
                /\ Len(response.questions) = Cardinality(match)
                /\ response.total_questions = Cardinality(match)
                /\ response.current_category = id

\* questions of two categories stored, one category asked for
C6_Witness ==
    /\ request.op = "get_questions_by_category"
    /\ response.status = 200
    /\ response.total_questions < Cardinality(questions)

\* term occurs in text as a substring when letter case is ignored
ContainsIgnoreCase(text, term) ==
    \E i \in 1..(Len(text) + 1) :
        /\ i + Len(term) - 1 <= Len(text)
        /\ \A k \in 1..Len(term) : lower(text[i + k - 1]) = lower(term[k])

\* C7: POST /questions/search answers 200 with exactly the stored questions
\* whose text contains searchTerm as a substring, letter case ignored (all of
\* them for an absent or empty searchTerm), and total_questions their number.
C7_Search ==
    request.op = "search_questions" =>
        LET term == request.data.searchTerm.s
            match == {q \in questions : ContainsIgnoreCase(q.question, term)}
        IN /\ response.status = 200
           /\ response.success
           /\ Range(response.questions) = {format(q) : q \in match}
           /\ Len(response.questions) = Cardinality(match)
           /\ response.total_questions = Len(response.questions)

\* C8: POST /quizzes whose quiz_category is absent, null or lacks the key id
\* answers the 422 envelope, whatever the store and previous_questions, and
\* leaves the store unchanged.
C8_QuizMalformed ==
    [][(/\ request'.op = "play_quiz"
        /\ \/ request'.data.quiz_category.kind \in {"absent", "null"}
           \/ ~request'.data.quiz_category.has_id) =>
          /\ response' = [status |-> 422, success |-> FALSE, error |-> 422,
                          message |-> "Unprocessable entity"]
          /\ questions' = questions]_vars

\* an object without the key id, sent while questions are stored
C8_Witness ==
    /\ request.op = "play_quiz"
    /\ request.data.quiz_category.kind = "object"
    /\ ~request.data.quiz_category.has_id
    /\ response.status = 422
    /\ questions # {}

----------------------------------------------------------------------------
(* SpecPage: listing a store of more than one page.  Every question is     *)
(* created from the same body, so only the ids tell the stores apart.      *)

PageBody ==
    [question |-> JStr(<<"b">>), answer |-> JStr(<<"a">>),
     category |-> JStr(<<"1">>), difficulty |-> JInt(1)]

\* pages from below zero to beyond the last page of a full store
PagePages == -2..((PageMaxId \div QUESTIONS_PER_PAGE) + 2)

InitPage == Init /\ categories = SeededCategories

PageGetQuestions == \E page \in PagePages : get_questions(page) /\ Idle

PageDeleteQuestion == \E question_id \in 1..PageMaxId : delete_question(question_id) /\ Idle

PageCreateQuestion == next_id <= PageMaxId /\ create_question(PageBody) /\ Idle

NextPage ==
    \/ PageGetQuestions
    \/ PageDeleteQuestion
    \/ PageCreateQuestion

SpecPage == InitPage /\ [][NextPage]_vars

\* 0-based position of q among the stored questions in ascending id order
Position(q) == Cardinality({r \in questions : r.id < q.id})

\* C4: GET /questions?page=N, N >= 1, returns the items at 0-based positions
\* (N-1)*10 .. N*10-1 of the stored questions in ascending id order, in that
\* order, with total_questions the number of stored questions; an empty
\* slice (every N > ceil(total/10), and N = 1 on an empty store) answers 404.
C4_Page ==
    (request.op = "get_questions" /\ request.page >= 1) =>
        LET N == request.page
            total == Cardinality(questions)
            slice == {q \in questions :
                        (N - 1) * 10 <= Position(q) /\ Position(q) <= N * 10 - 1}
        IN /\ (N > (total + 9) \div 10) => slice = {}
           /\ IF slice = {}
              THEN response = not_found
              ELSE /\ response.status = 200
                   /\ Len(response.questions) = Cardinality(slice)
                   /\ Len(response.questions) <= 10
                   /\ \A i \in 1..Len(response.questions) :
                        \E q \in slice :
                            /\ response.questions[i] = format(q)
                            /\ Position(q) = (N - 1) * 10 + i - 1
                   /\ response.total_questions = total

\* the second page of a store of more than ten questions
C4_Witness ==
    /\ request.op = "get_questions"
    /\ request.page = 2
    /\ response.status = 200
    /\ Cardinality(questions) > 10

\* C5: a zero or negative page produces no rows, so GET /questions?page=N
\* with N <= 0 answers 404 whatever the store holds.
C5_NonPositivePage ==
    (request.op = "get_questions" /\ request.page <= 0) => response = not_found

----------------------------------------------------------------------------
(* SpecQuiz: one quiz session.  The client starts with previous_questions  *)
(* = [] and a fixed quiz_category, posts to /quizzes, and appends the id   *)
(* of each question it gets.  No create or delete runs meanwhile.          *)

\* a stored question as the create endpoint leaves it
Row(id, category) ==
    [id |-> id, question |-> <<"b">>, answer |-> <<"a">>,
     category |-> category, difficulty |-> 1]

\* stores of up to QuizMaxId questions: any ids of 1..QuizMaxId, any categories
QuizStores ==
    UNION {{{Row(i, c[i]) : i \in S} : c \in [S -> CategoryStrings]} :
           S \in SUBSET (1..QuizMaxId)}

InitQuiz ==
    /\ questions \in QuizStores
    /\ next_id = QuizMaxId + 1
    /\ categories = SeededCategories
    /\ request = [op |-> "none"]
    /\ response = [status |-> 0]
    /\ \E c \in 0..2 :
         session = [previous_questions |-> <<>>, quiz_category |-> c, served |-> <<>>]
    /\ pc = <<>>
    /\ target = <<>>
    /\ result = <<>>

QuizRound ==
    /\ Len(session.served) < QuizMaxId + 2
    /\ play_quiz([previous_questions |->
                      [kind |-> "list", ids |-> session.previous_questions],
                  quiz_category |->
                      [kind |-> "object", has_id |-> TRUE,
                       id |-> JInt(session.quiz_category)]])
    /\ session' =
         [session EXCEPT
            !.served = Append(@, response'.question),
            !.previous_questions =
                IF response'.question = <<>> THEN @
                ELSE Append(@, response'.question[1].id)]
    /\ UNCHANGED <<pc, target, result>>

NextQuiz == QuizRound

SpecQuiz == InitQuiz /\ [][NextQuiz]_vars

\* the questions a session of category c can be served
InScope(c) == {q \in questions : c # 0 => q.category = str(c)}

\* C9: a session receives every in-scope question exactly once in its first
\* K responses, K the number of in-scope questions, and a null question on
\* response K+1 and on every later one.
C9_QuizDrains ==
    LET scope == InScope(session.quiz_category)
        K == Cardinality(scope)
        served == session.served
    IN /\ \A i \in 1..Len(served) :
            IF i <= K
            THEN served[i] # <<>> /\ \E q \in scope : served[i][1] = format(q)
            ELSE served[i] = <<>>
       /\ \A i, j \in 1..Len(served) : (i < j /\ j <= K) => served[i] # served[j]
       /\ Len(served) >= K => {served[i][1] : i \in 1..K} = {format(q) : q \in scope}

\* a session with a category, two questions in scope, all served and then null
C9_Witness ==
    /\ session.quiz_category = 1
    /\ Cardinality(InScope(1)) = 2
    /\ Cardinality(questions) = 3
    /\ Len(session.served) = 4
    /\ session.served[4] = <<>>

----------------------------------------------------------------------------
(* SpecConc: two DELETE /questions/{id} requests, each in its own database *)
(* session, interleaved step by step: lookup, delete, commit.              *)

Procs == {1, 2}

InitConc ==
    /\ \E S \in SUBSET (1..ConcMaxId) : questions = {Row(i, <<"1">>) : i \in S}
    /\ next_id = ConcMaxId + 1
    /\ categories = SeededCategories
    /\ request = [op |-> "none"]
    /\ response = [status |-> 0]
    /\ session = NoSession
    /\ pc = [p \in Procs |-> "lookup"]
    /\ target \in [Procs -> 1..ConcMaxId]
    /\ result = [p \in Procs |-> [status |-> 0]]

\* question = session.get(Question, question_id); if question is None: abort(404)
conc_lookup(p) ==
    /\ pc[p] = "lookup"
    /\ IF session_get(target[p]) = {}
       THEN /\ result' = [result EXCEPT ![p] = not_found]
            /\ pc' = [pc EXCEPT ![p] = "done"]
       ELSE /\ pc' = [pc EXCEPT ![p] = "delete"]
            /\ UNCHANGED result
    /\ UNCHANGED <<questions, next_id, categories, request, response, session, target>>

\* session.delete(question): marks the object in the session, no statement yet
conc_delete(p) ==
    /\ pc[p] = "delete"
    /\ pc' = [pc EXCEPT ![p] = "commit"]
    /\ UNCHANGED <<questions, next_id, categories, request, response, session, target, result>>

\* mutant: the session is closed without the commit, which rolls back
conc_commit_rolled_back(p) ==
    /\ pc[p] = "commit"
    /\ pc' = [pc EXCEPT ![p] = "done"]
    /\ result' = [result EXCEPT
                    ![p] = [status |-> 200, success |-> TRUE, deleted |-> target[p]]]
    /\ UNCHANGED <<questions, next_id, categories, request, response, session, target>>

\* session.commit(): the DELETE statement and the COMMIT.  When the row is
\* still there it is removed.  When another request's commit removed it
\* first, the statement matches no row: the database and the ORM either let
\* that pass (the handler answers 200) or raise (rollback, abort(422)).
conc_commit(p) ==
    /\ pc[p] = "commit"
    /\ pc' = [pc EXCEPT ![p] = "done"]
    /\ IF session_get(target[p]) # {}
       THEN /\ questions' = questions \ session_get(target[p])
            /\ result' = [result EXCEPT
                            ![p] = [status |-> 200, success |-> TRUE, deleted |-> target[p]]]
       ELSE /\ UNCHANGED questions
            /\ \/ result' = [result EXCEPT
                               ![p] = [status |-> 200, success |-> TRUE, deleted |-> target[p]]]
               \/ result' = [result EXCEPT ![p] = unprocessable_entity]
    /\ UNCHANGED <<next_id, categories, request, response, session, target>>

ConcLookup == \E p \in Procs : conc_lookup(p)

ConcDelete == \E p \in Procs : conc_delete(p)

ConcCommit == \E p \in Procs : conc_commit(p)

NextConc ==
    \/ ConcLookup
    \/ ConcDelete
    \/ ConcCommit

SpecConc == InitConc /\ [][NextConc]_vars

\* both requests are over, they named the same id, and the id was stored
\* when the first lookup ran (a request that saw it did not answer 404)
BothDeletedSame ==
    /\ DOMAIN pc = Procs
    /\ \A p \in Procs : pc[p] = "done"
    /\ target[1] = target[2]
    /\ \E p \in Procs : result[p].status # 404

\* C10: of two interleaved DELETEs of one existing id at most one answers 200
\* with deleted = id, the other answers 404 or 422, and the question is
\* absent from the store after both.
C10_AtMostOne200 ==
    BothDeletedSame =>
        /\ \E p \in Procs :
             /\ result[p].status = 200
             /\ result[3 - p].status \in {404, 422}
        /\ target[1] \notin Ids(questions)

\* C10 as amended: one of the two answers 200 with deleted = id, the other
\* answers 200 with deleted = id, 404 or 422, and the question is absent from
\* the store after both.
C10_OneOrBoth200 ==
    BothDeletedSame =>
        /\ \E p \in Procs :
             /\ result[p] = [status |-> 200, success |-> TRUE, deleted |-> target[p]]
             /\ \/ result[3 - p] = [status |-> 200, success |-> TRUE, deleted |-> target[p]]
                \/ result[3 - p] = not_found
                \/ result[3 - p] = unprocessable_entity
        /\ target[1] \notin Ids(questions)

\* both requests found the question and both answered 200
C10_Witness ==
    /\ BothDeletedSame
    /\ \A p \in Procs : result[p].status = 200

====
